---- MODULE Spec2Model ----
(***************************************************************************)
(* Model of rest_framework_nested/relations.py: the two serializer fields  *)
(* NestedHyperlinkedRelatedField and HyperlinkedRouterField.               *)
(*                                                                         *)
(* Python values are modelled as records so that any two of them can be    *)
(* compared: None is [none |-> TRUE], the integer n is [int |-> n], and an *)
(* object is the record of its attributes (an attribute the object does    *)
(* not have is a field the record does not have).  A PKOnlyObject carries  *)
(* the extra field cls, which is not an attribute.                         *)
(*                                                                         *)
(* A behaviour is one field instance (of either class, constructed with    *)
(* any of the keyword arguments below) and the calls the serializer makes  *)
(* on it for one input: get_url, get_object, get_queryset, in any order    *)
(* and any number of times.  Every call leaves its outcome in last.        *)
(***************************************************************************)
EXTENDS Integers, Sequences, FiniteSets, TLC

VARIABLES
    field,          \* the field instance: its class, configuration and queryset
    ctor,           \* the keyword arguments the field was constructed with
    input,          \* what the serializer hands to the field: obj, root, view_kwargs
    hasRelated,     \* whether getattr(model, source).related resolves
    relatedReads,   \* how often the related accessor has been read
    calls,          \* number of get_queryset calls made so far
    last            \* the last call: operation, arguments, outcome

vars == <<field, ctor, input, hasRelated, relatedReads, calls, last>>

\* ------------------------------------------------------------------ bounds
MaxVal == 2        \* attribute values are the integers 1..MaxVal
NumRows == 3       \* primary keys of the rows of the table are 1..NumRows
MaxCalls == 3      \* get_queryset is called at most MaxCalls times

\* ------------------------------------------------------------------ values
None == [none |-> TRUE]
IntVal(n) == [int |-> n]
Ints(n) == {IntVal(i) : i \in 1..n}
EmptyDict == [k \in {} |-> None]

\* {k1: v1, k2: v2} as Python builds it: a repeated key keeps the later value.
Dict2(k1, v1, k2, v2) == (k2 :> v2) @@ (k1 :> v1)

\* hasattr(obj, name); None and integers have none of the attributes used here.
HasAttr(obj, name) == name \in (DOMAIN obj \ {"cls", "none", "int"})

\* Python truth value of the values that occur: None is false, objects are true.
Truthy(v) == v # None

IsPKOnlyObject(obj) == "cls" \in DOMAIN obj

\* Outcomes of a call.
Return(v, rev) == [raised |-> "", ret |-> v, reversed |-> rev]
Raise(exc, rev) == [raised |-> exc, ret |-> None, reversed |-> rev]

\* self.reverse(view_name, kwargs=kwargs, ...): the URL resolver either finds
\* a route for the mapping and returns its URL, or raises NoReverseMatch.
Reverse(kwargs, routeMatches) ==
    IF routeMatches
    THEN Return([url |-> kwargs], <<kwargs>>)
    ELSE Raise("NoReverseMatch", <<kwargs>>)

\* ------------------------------------------------- NestedHyperlinkedRelatedField
ClassLookupField == "pk"
ClassParentLookupField == "parent"
ClassParentLookupRelatedField == "pk"

Pop(kwargs, name, default) == IF name \in DOMAIN kwargs THEN kwargs[name] ELSE default

\* The base HyperlinkedRelatedField.__init__ reached through super().__init__.
BaseInit(cls, kwargs) ==
    LET lf == Pop(kwargs, "lookup_field", ClassLookupField)
    IN  [cls |-> cls,
         lookup_field |-> lf,
         lookup_url_kwarg |-> Pop(kwargs, "lookup_url_kwarg", lf),
         queryset |-> Pop(kwargs, "queryset", None)]

\* Variant: parent_lookup_url_kwarg defaults to the class attribute instead of
\* the instance's parent_lookup_field.
NestedInitClassDefault(kwargs) ==
    LET plf == Pop(kwargs, "parent_lookup_field", ClassParentLookupField)
    IN  BaseInit("Nested", kwargs) @@
        [parent_lookup_field |-> plf,
         parent_lookup_url_kwarg |->
             Pop(kwargs, "parent_lookup_url_kwarg", ClassParentLookupField),
         parent_lookup_related_field |->
             Pop(kwargs, "parent_lookup_related_field", ClassParentLookupRelatedField)]

NestedInit(kwargs) ==
    LET plf == Pop(kwargs, "parent_lookup_field", ClassParentLookupField)
    IN  BaseInit("Nested", kwargs) @@
        [parent_lookup_field |-> plf,
         parent_lookup_url_kwarg |-> Pop(kwargs, "parent_lookup_url_kwarg", plf),
         parent_lookup_related_field |->
             Pop(kwargs, "parent_lookup_related_field", ClassParentLookupRelatedField)]

\* Variant: get_url without the test for unsaved objects.
NestedGetUrlNoPkCheck(self, obj, routeMatches) ==
    IF ~HasAttr(obj, self.lookup_field) \/ ~HasAttr(obj, self.parent_lookup_field)
    THEN Raise("AttributeError", <<>>)
    ELSE LET parent_lookup_object == obj[self.parent_lookup_field]
         IN  IF Truthy(parent_lookup_object)
                /\ ~HasAttr(parent_lookup_object, self.parent_lookup_related_field)
             THEN Raise("AttributeError", <<>>)
             ELSE Reverse(Dict2(self.lookup_url_kwarg, obj[self.lookup_field],
                                self.parent_lookup_url_kwarg,
                                IF Truthy(parent_lookup_object)
                                THEN parent_lookup_object[self.parent_lookup_related_field]
                                ELSE None),
                          routeMatches)

\* Variant: get_url turning NoReverseMatch into a None result.
NestedGetUrlSwallow(self, obj, routeMatches) ==
    LET r == NestedGetUrlNoPkCheck(self, obj, routeMatches)
    IN  IF HasAttr(obj, "pk") /\ obj["pk"] = None THEN Return(None, <<>>)
        ELSE IF r.raised = "NoReverseMatch" THEN Return(None, r.reversed)
        ELSE r

\* Variant: get_url always reading the parent's pk.
NestedGetUrlParentPk(self, obj, routeMatches) ==
    IF HasAttr(obj, "pk") /\ obj["pk"] = None THEN Return(None, <<>>)
    ELSE NestedGetUrlNoPkCheck(
             [self EXCEPT !.parent_lookup_related_field = ClassParentLookupRelatedField],
             obj, routeMatches)

\* get_url(self, obj, view_name, request, format)
NestedGetUrl(self, obj, routeMatches) ==
    IF HasAttr(obj, "pk") /\ obj["pk"] = None
    THEN Return(None, <<>>)
    ELSE IF ~HasAttr(obj, self.lookup_field)
    THEN Raise("AttributeError", <<>>)
    ELSE IF ~HasAttr(obj, self.parent_lookup_field)
    THEN Raise("AttributeError", <<>>)
    ELSE LET lookup_value == obj[self.lookup_field]
             parent_lookup_object == obj[self.parent_lookup_field]
         IN  IF Truthy(parent_lookup_object)
                /\ ~HasAttr(parent_lookup_object, self.parent_lookup_related_field)
             THEN Raise("AttributeError", <<>>)
             ELSE LET parent_lookup_value ==
                          IF Truthy(parent_lookup_object)
                          THEN parent_lookup_object[self.parent_lookup_related_field]
                          ELSE None
                      kwargs == Dict2(self.lookup_url_kwarg, lookup_value,
                                      self.parent_lookup_url_kwarg, parent_lookup_value)
                  IN  Reverse(kwargs, routeMatches)

\* Fields of the model that are relations to a parent model.
RelationFields == {"parent", "owner"}

\* One keyword of QuerySet.get(**lookup_kwargs) against one row: an exact
\* lookup; on a relation it compares the related object's primary key, and
\* None selects the rows whose relation is null.
RowMatches(row, name, value) ==
    IF name \in RelationFields /\ row[name] # None
    THEN value = row[name]["pk"]
    ELSE value = row[name]

\* self.get_queryset().get(**lookup_kwargs)
QuerySetGet(queryset, lookup_kwargs) ==
    LET matches == {row \in queryset.rows :
                       \A name \in DOMAIN lookup_kwargs :
                           RowMatches(row, name, lookup_kwargs[name])}
    IN  IF matches = {} THEN Raise("DoesNotExist", <<>>)
        ELSE IF Cardinality(matches) > 1 THEN Raise("MultipleObjectsReturned", <<>>)
        ELSE Return(CHOOSE row \in matches : TRUE, <<>>)

\* Variant: get_object looking up lookup_field alone and taking the first row.
NestedGetObjectFirst(self, view_kwargs) ==
    IF self.lookup_url_kwarg \notin DOMAIN view_kwargs
       \/ self.parent_lookup_url_kwarg \notin DOMAIN view_kwargs
    THEN Raise("KeyError", <<>>)
    ELSE LET matches == {row \in self.queryset.rows :
                 RowMatches(row, self.lookup_field, view_kwargs[self.lookup_url_kwarg])}
         IN  IF matches = {} THEN Raise("DoesNotExist", <<>>)
             ELSE Return(CHOOSE row \in matches : TRUE, <<>>)

\* get_object(self, view_name, view_args, view_kwargs)
NestedGetObject(self, view_kwargs) ==
    IF self.lookup_url_kwarg \notin DOMAIN view_kwargs
       \/ self.parent_lookup_url_kwarg \notin DOMAIN view_kwargs
    THEN Raise("KeyError", <<>>)
    ELSE LET lookup_value == view_kwargs[self.lookup_url_kwarg]
             parent_lookup_value == view_kwargs[self.parent_lookup_url_kwarg]
             lookup_kwargs == Dict2(self.lookup_field, lookup_value,
                                    self.parent_lookup_field, parent_lookup_value)
         IN  QuerySetGet(self.queryset, lookup_kwargs)

\* ------------------------------------------------------- HyperlinkedRouterField
\* __init__(self, view_name=None, **kwargs): forces many=False, then the base.
RouterInit(kwargs) == BaseInit("Router", kwargs)

\* The handle getattr(model, self.source).related yields; it is a true value.
RelatedHandle == [related |-> TRUE]

\* `not self.queryset`: unset (None) is false, a QuerySet is false when it
\* has no rows, the related handle is true.
QuerysetTruthy(queryset) ==
    /\ queryset # None
    /\ ("rows" \in DOMAIN queryset => queryset.rows # {})

\* Variant: get_queryset resolving the queryset on every call.
RouterGetQuerysetNoMemo(self, related) ==
    IF ~related
    THEN [self |-> self, raised |-> "AttributeError", read |-> FALSE]
    ELSE [self |-> [self EXCEPT !.queryset = RelatedHandle],
          raised |-> "", read |-> TRUE]

\* get_queryset(self): the new field state, the exception raised if any, and
\* whether the related accessor was read.
RouterGetQueryset(self, related) ==
    IF ~QuerysetTruthy(self.queryset)
    THEN IF ~related
         THEN [self |-> self, raised |-> "AttributeError", read |-> FALSE]
         ELSE [self |-> [self EXCEPT !.queryset = RelatedHandle],
               raised |-> "", read |-> TRUE]
    ELSE [self |-> self, raised |-> "", read |-> FALSE]

\* Variant: get_url trying the bound object, then its instance, and the root's
\* instance last.
RouterGetUrlObjFirst(self, obj, root, routeMatches) ==
    IF HasAttr(obj, self.lookup_field) /\ obj[self.lookup_field] # None
    THEN Reverse(self.lookup_url_kwarg :> obj[self.lookup_field], routeMatches)
    ELSE IF HasAttr(obj, "instance")
            /\ HasAttr(obj["instance"], self.lookup_field)
            /\ obj["instance"][self.lookup_field] # None
    THEN Reverse(self.lookup_url_kwarg :> obj["instance"][self.lookup_field],
                 routeMatches)
    ELSE IF IsPKOnlyObject(obj)
            /\ HasAttr(root["instance"], self.lookup_field)
            /\ root["instance"][self.lookup_field] # None
    THEN Reverse(self.lookup_url_kwarg :> root["instance"][self.lookup_field],
                 routeMatches)
    ELSE Return(None, <<>>)

\* get_url(self, obj, view_name, request, format); root is self.root.
RouterGetUrl(self, obj, root, routeMatches) ==
    IF HasAttr(obj, self.lookup_field) /\ obj[self.lookup_field] = None
    THEN Return(None, <<>>)
    ELSE IF HasAttr(obj, "instance")
            /\ HasAttr(obj["instance"], self.lookup_field)
            /\ obj["instance"][self.lookup_field] = None
    THEN Return(None, <<>>)
    ELSE IF IsPKOnlyObject(obj)
    THEN IF ~HasAttr(root["instance"], self.lookup_field)
         THEN Raise("AttributeError", <<>>)
         ELSE Reverse(self.lookup_url_kwarg :> root["instance"][self.lookup_field],
                      routeMatches)
    ELSE IF HasAttr(obj, self.lookup_field)
    THEN Reverse(self.lookup_url_kwarg :> obj[self.lookup_field], routeMatches)
    ELSE IF ~HasAttr(obj, "instance")
    THEN Raise("AttributeError", <<>>)
    ELSE IF HasAttr(obj["instance"], self.lookup_field)
    THEN Reverse(self.lookup_url_kwarg :> obj["instance"][self.lookup_field],
                 routeMatches)
    ELSE Return(None, <<>>)

\* ------------------------------------------------------------- the inputs
\* An optional attribute or keyword: absent, or present with one of vals.
Attr(name, vals) == {EmptyDict} \cup {name :> v : v \in vals}

\* Parent rows: primary keys 1..MaxVal, each with a slug that differs from it.
Parent(p) == ("pk" :> IntVal(p)) @@ ("slug" :> IntVal((p % MaxVal) + 1))
Parents == {Parent(p) : p \in 1..MaxVal}
ParentWithoutSlug == "pk" :> IntVal(1)

\* The child table: row i has primary key i; rows 1 and 2 share slug and
\* parent, row 3 has no parent.
Row(i) ==
    ("pk" :> IntVal(i)) @@ ("slug" :> IntVal((i + 1) \div 2))
    @@ ("parent" :> IF i = 3 THEN None ELSE Parent(IF i < 3 THEN 1 ELSE 2))
    @@ ("owner" :> Parent(2))
Table == {Row(i) : i \in 1..NumRows}
QuerySets == {[rows |-> rows] : rows \in SUBSET Table}

\* Objects handed to NestedHyperlinkedRelatedField.get_url.
NestedObjects ==
    {a @@ b @@ c @@ d :
        a \in Attr("pk", {None} \cup Ints(NumRows)),
        b \in Attr("slug", Ints(MaxVal)),
        c \in Attr("parent", {None, ParentWithoutSlug} \cup Parents),
        d \in Attr("owner", {None, Parent(2)})}

\* Matched URL keyword arguments handed to get_object.
ViewKwargs(self) ==
    {Dict2(a[1], a[2], b[1], b[2]) :
        a \in {self.lookup_url_kwarg} \X ({None} \cup Ints(NumRows)),
        b \in {self.parent_lookup_url_kwarg} \X ({None} \cup Ints(NumRows))}
    \cup Attr(self.lookup_url_kwarg, {IntVal(1)})

\* Objects handed to HyperlinkedRouterField.get_url, and self.root.instance.
Instances ==
    {a @@ b : a \in Attr("pk", {None} \cup Ints(MaxVal)),
              b \in Attr("slug", {None, IntVal(1)})}
PKOnlyObjects ==
    {[cls |-> "PKOnlyObject", pk |-> v] : v \in {None} \cup Ints(MaxVal)}
RouterObjects ==
    PKOnlyObjects \cup
    {a @@ b : a \in Instances, b \in Attr("instance", {None} \cup Instances)}
Roots == {[instance |-> i] : i \in {None} \cup Instances}

NestedCtorKwargs ==
    {a @@ b @@ c @@ d @@ e @@ q :
        a \in Attr("lookup_field", {"slug"}),
        b \in Attr("lookup_url_kwarg", {"id"}),
        c \in Attr("parent_lookup_field", {"owner"}),
        d \in Attr("parent_lookup_url_kwarg", {"parent_pk", "pk"}),
        e \in Attr("parent_lookup_related_field", {"slug"}),
        q \in {"queryset" :> qs : qs \in QuerySets}}

RouterCtorKwargs ==
    {a @@ b @@ q :
        a \in Attr("lookup_field", {"slug"}),
        b \in Attr("lookup_url_kwarg", {"id"}),
        q \in Attr("queryset", {[rows |-> {}], [rows |-> Table]})}

\* --------------------------------------------------------- the state machine
NoCall ==
    [op |-> "init", args |-> EmptyDict, via |-> "", routeMatches |-> TRUE,
     res |-> Return(None, <<>>)]

\* A finished call: its arguments, where they came from, whether the URL
\* resolver had a route for it, and its outcome.
Call(op, args, via, routeMatches, res) ==
    [op |-> op, args |-> args, via |-> via, routeMatches |-> routeMatches, res |-> res]

NestedInputs(self) ==
    {[obj |-> obj] : obj \in NestedObjects}
    \cup {[view_kwargs |-> view_kwargs] : view_kwargs \in ViewKwargs(self)}

RouterInputs == {[obj |-> obj, root |-> root] : obj \in RouterObjects, root \in Roots}

Init ==
    /\ \/ \E kwargs \in NestedCtorKwargs :
            /\ ctor = kwargs
            /\ field = NestedInit(kwargs)
            /\ input \in NestedInputs(NestedInit(kwargs))
            /\ hasRelated = FALSE
       \/ \E kwargs \in RouterCtorKwargs :
            /\ ctor = kwargs
            /\ field = RouterInit(kwargs)
            /\ input \in RouterInputs
            /\ hasRelated \in BOOLEAN
    /\ relatedReads = 0
    /\ calls = 0
    /\ last = NoCall

\* Serialization: the field is asked for the URL of the object at hand.
CallNestedGetUrl ==
    /\ field.cls = "Nested"
    /\ "obj" \in DOMAIN input
    /\ \E routeMatches \in BOOLEAN :
          last' = Call("get_url", input, "input", routeMatches,
                       NestedGetUrl(field, input.obj, routeMatches))
    /\ UNCHANGED <<field, ctor, input, hasRelated, relatedReads, calls>>

\* Deserialization: the field is asked for the object of matched URL keyword
\* arguments, either those at hand or those of the URL get_url just returned.
CallNestedGetObject ==
    /\ field.cls = "Nested"
    /\ \/ /\ "view_kwargs" \in DOMAIN input
          /\ last' = Call("get_object", input, "input", TRUE,
                          NestedGetObject(field, input.view_kwargs))
       \/ /\ last.op = "get_url"
          /\ last.res.raised = ""
          /\ last.res.ret # None
          /\ last' = Call("get_object", [view_kwargs |-> last.res.ret.url], "get_url", TRUE,
                          NestedGetObject(field, last.res.ret.url))
    /\ UNCHANGED <<field, ctor, input, hasRelated, relatedReads, calls>>

CallRouterGetQueryset ==
    /\ field.cls = "Router"
    /\ calls < MaxCalls
    /\ LET r == RouterGetQueryset(field, hasRelated)
       IN  /\ field' = r.self
           /\ relatedReads' = relatedReads + (IF r.read THEN 1 ELSE 0)
           /\ last' = Call("get_queryset", EmptyDict, "input", TRUE,
                           IF r.raised = "" THEN Return(None, <<>>)
                           ELSE Raise(r.raised, <<>>))
    /\ calls' = calls + 1
    /\ UNCHANGED <<ctor, input, hasRelated>>

CallRouterGetUrl ==
    /\ field.cls = "Router"
    /\ \E routeMatches \in BOOLEAN :
          last' = Call("get_url", input, "input", routeMatches,
                       RouterGetUrl(field, input.obj, input.root, routeMatches))
    /\ UNCHANGED <<field, ctor, input, hasRelated, relatedReads, calls>>

Next ==
    \/ CallNestedGetUrl
    \/ CallNestedGetObject
    \/ CallRouterGetQueryset
    \/ CallRouterGetUrl

Spec == Init /\ [][Next]_vars

\* ------------------------------------------------------------------ claims
Missing == [missing |-> TRUE]
GetAttr(obj, name) == IF HasAttr(obj, name) THEN obj[name] ELSE Missing

\* The object exposes a non-null value for the attribute.
Exposes(obj, name) == HasAttr(obj, name) /\ obj[name] # None

NestedGetUrlCalled == field.cls = "Nested" /\ last.op = "get_url"
RouterGetUrlCalled == field.cls = "Router" /\ last.op = "get_url"

\* The parent value get_url is to put in the mapping for obj.
ParentValueOf(self, obj) ==
    IF GetAttr(obj, self.parent_lookup_field) \in {None, Missing}
    THEN None
    ELSE GetAttr(obj[self.parent_lookup_field], self.parent_lookup_related_field)

\* The field as it was constructed.
Constructed == IF field.cls = "Nested" THEN NestedInit(ctor) ELSE RouterInit(ctor)

\* C1 as stated: for every object whose primary key is set, get_url calls the
\* resolver exactly once, with a mapping of exactly two entries: the object's
\* lookup value under lookup_url_kwarg and the parent's value (None without a
\* parent) under parent_lookup_url_kwarg.
C1_TwoEntriesForAnyObject ==
    (NestedGetUrlCalled /\ Exposes(last.args.obj, "pk")) =>
        LET obj == last.args.obj
            rev == last.res.reversed
        IN  /\ Len(rev) = 1
            /\ Cardinality(DOMAIN rev[1]) = 2
            /\ rev[1][field.lookup_url_kwarg] = GetAttr(obj, field.lookup_field)
            /\ rev[1][field.parent_lookup_url_kwarg] = ParentValueOf(field, obj)

\* The object has the attributes get_url reads.
HasLookupAttrs(self, obj) ==
    /\ HasAttr(obj, self.lookup_field)
    /\ HasAttr(obj, self.parent_lookup_field)
    /\ (obj[self.parent_lookup_field] # None =>
            HasAttr(obj[self.parent_lookup_field], self.parent_lookup_related_field))

\* C1 amended: for every object whose primary key is set and that has the
\* attributes named by lookup_field and parent_lookup_field (and whose parent,
\* when present, has parent_lookup_related_field), get_url calls the resolver
\* exactly once with the mapping keyed by lookup_url_kwarg and
\* parent_lookup_url_kwarg: the parent's value, or None without a parent,
\* under parent_lookup_url_kwarg, and the object's lookup value under
\* lookup_url_kwarg when the two names differ (one entry when they are equal);
\* a None parent is not an error.
C1_GetUrlMapping ==
    (/\ NestedGetUrlCalled
     /\ Exposes(last.args.obj, "pk")
     /\ HasLookupAttrs(field, last.args.obj)) =>
        LET obj == last.args.obj
            rev == last.res.reversed
        IN  /\ Len(rev) = 1
            /\ DOMAIN rev[1] = {field.lookup_url_kwarg, field.parent_lookup_url_kwarg}
            /\ rev[1][field.parent_lookup_url_kwarg] = ParentValueOf(field, obj)
            /\ (field.lookup_url_kwarg # field.parent_lookup_url_kwarg =>
                    rev[1][field.lookup_url_kwarg] = obj[field.lookup_field])
            /\ last.res.raised \in {"", "NoReverseMatch"}

C1_Witness ==
    /\ NestedGetUrlCalled
    /\ Exposes(last.args.obj, "pk")
    /\ HasLookupAttrs(field, last.args.obj)
    /\ field.parent_lookup_related_field = "slug"
    /\ last.args.obj[field.parent_lookup_field] # None
    /\ Len(last.res.reversed) = 1
    /\ Cardinality(DOMAIN last.res.reversed[1]) = 2

\* C2: for an object that has a pk attribute whose value is None, get_url
\* returns None and never calls the resolver, whatever else the object, its
\* parent or the configuration are.
C2_UnsavedObjectHasNoUrl ==
    (/\ NestedGetUrlCalled
     /\ HasAttr(last.args.obj, "pk")
     /\ last.args.obj["pk"] = None) =>
        (/\ last.res.raised = ""
         /\ last.res.ret = None
         /\ last.res.reversed = <<>>)

C2_Witness ==
    /\ NestedGetUrlCalled
    /\ HasAttr(last.args.obj, "pk")
    /\ last.args.obj["pk"] = None
    /\ Exposes(last.args.obj, field.parent_lookup_field)
    /\ last.res.ret = None

\* The compound lookup that selects obj by its own values.
CompoundLookupOf(self, obj) ==
    Dict2(self.lookup_field, obj[self.lookup_field],
          self.parent_lookup_field,
          IF obj[self.parent_lookup_field] = None THEN None
          ELSE obj[self.parent_lookup_field]["pk"])

\* C3 as stated (here even with the two URL keyword names distinct): for a
\* saved object of the queryset that a single compound lookup reaches,
\* get_object applied to the mapping get_url built for it returns that object,
\* whatever the configuration.
C3_RoundTrip ==
    (/\ field.cls = "Nested"
     /\ last.op = "get_object"
     /\ last.via = "get_url"
     /\ field.lookup_url_kwarg # field.parent_lookup_url_kwarg
     /\ input.obj \in field.queryset.rows
     /\ QuerySetGet(field.queryset, CompoundLookupOf(field, input.obj))
            = Return(input.obj, <<>>)) =>
        last.res = Return(input.obj, <<>>)

\* The rows the compound lookup built from view_kwargs selects.
LookupMatches(self, view_kwargs) ==
    {row \in self.queryset.rows :
        /\ RowMatches(row, self.parent_lookup_field,
                      view_kwargs[self.parent_lookup_url_kwarg])
        /\ (self.lookup_field # self.parent_lookup_field =>
                RowMatches(row, self.lookup_field, view_kwargs[self.lookup_url_kwarg]))}

\* C4: get_object looks up {lookup_field: view_kwargs[lookup_url_kwarg],
\* parent_lookup_field: view_kwargs[parent_lookup_url_kwarg]} in the queryset:
\* one match is returned, no match fails with DoesNotExist, several fail with
\* MultipleObjectsReturned; the queryset is left as it was.
C4_GetObject ==
    (/\ field.cls = "Nested"
     /\ last.op = "get_object"
     /\ last.res.raised # "KeyError") =>
        LET matches == LookupMatches(field, last.args.view_kwargs)
        IN  /\ Cardinality(matches) = 1 =>
                    (last.res.raised = "" /\ last.res.ret \in matches)
            /\ matches = {} => last.res.raised = "DoesNotExist"
            /\ Cardinality(matches) > 1 => last.res.raised = "MultipleObjectsReturned"
            /\ field.queryset = ctor["queryset"]

C4_Witness ==
    /\ field.cls = "Nested"
    /\ last.op = "get_object"
    /\ last.res.raised = "MultipleObjectsReturned"
    /\ Cardinality(LookupMatches(field, last.args.view_kwargs)) = 2

\* None of the bound object, its instance and the root's instance exposes a
\* non-null lookup value.
NoLookupValue(self, args) ==
    /\ ~Exposes(args.obj, self.lookup_field)
    /\ ~Exposes(GetAttr(args.obj, "instance"), self.lookup_field)
    /\ ~Exposes(args.root["instance"], self.lookup_field)

\* C5, its first half: when none of the bound object, its instance and the
\* root's instance exposes a non-null lookup value, get_url returns None.
C5_NullWhenNoLookupValue ==
    (RouterGetUrlCalled /\ NoLookupValue(field, last.args)) =>
        (/\ last.res.raised = ""
         /\ last.res.ret = None
         /\ last.res.reversed = <<>>)

\* C6: on a field constructed without a queryset, the related accessor is
\* read at most once over any sequence of get_queryset calls, and once it has
\* been read the field keeps the handle it yielded.
C6_QuerysetMemoized ==
    (field.cls = "Router" /\ "queryset" \notin DOMAIN ctor) =>
        (/\ relatedReads <= 1
         /\ (relatedReads = 1 => field.queryset = RelatedHandle)
         /\ (relatedReads = 0 => field.queryset = None))

C6_Witness ==
    /\ field.cls = "Router"
    /\ "queryset" \notin DOMAIN ctor
    /\ calls >= 2
    /\ relatedReads = 1
    /\ last.op = "get_queryset"

\* C7: when get_url of either field reaches the resolver and the resolver
\* has no route, NoReverseMatch is what the caller gets; a None result never
\* comes out of a resolver call; and get_queryset raises AttributeError when
\* it has to resolve the queryset and the related accessor is missing.
C7_FailuresPropagate ==
    /\ (last.op = "get_url" /\ Len(last.res.reversed) = 1 /\ ~last.routeMatches) =>
            (last.res.raised = "NoReverseMatch" /\ last.res.ret = None)
    /\ (last.op = "get_url" /\ last.res.raised = "" /\ last.res.ret = None) =>
            last.res.reversed = <<>>
    /\ (last.op = "get_queryset" /\ ~hasRelated /\ ~QuerysetTruthy(field.queryset)) =>
            last.res.raised = "AttributeError"

C7_Witness ==
    /\ NestedGetUrlCalled
    /\ Len(last.res.reversed) = 1
    /\ ~last.routeMatches
    /\ last.res.raised = "NoReverseMatch"

\* C8: a NestedHyperlinkedRelatedField constructed without
\* parent_lookup_url_kwarg has it equal to the instance's parent_lookup_field,
\* also when that was passed to the constructor; a passed
\* parent_lookup_url_kwarg is used as given; parent_lookup_field defaults to
\* 'parent' and parent_lookup_related_field to 'pk'.
C8_ConstructorDefaults ==
    field.cls = "Nested" =>
        /\ field.parent_lookup_field = Pop(ctor, "parent_lookup_field", "parent")
        /\ field.parent_lookup_related_field =
               Pop(ctor, "parent_lookup_related_field", "pk")
        /\ field.parent_lookup_url_kwarg =
               Pop(ctor, "parent_lookup_url_kwarg", field.parent_lookup_field)

C8_Witness ==
    /\ field.cls = "Nested"
    /\ "parent_lookup_url_kwarg" \notin DOMAIN ctor
    /\ "parent_lookup_field" \in DOMAIN ctor
    /\ field.parent_lookup_url_kwarg = "owner"
    /\ last.op = "get_url"

\* C9 as stated, for the calls that reach the resolver: the bound object's own
\* lookup_field comes first, so when the bound object exposes a non-null
\* lookup_field value, that value is the one in the URL mapping.
C9_BoundObjectFirst ==
    (/\ RouterGetUrlCalled
     /\ Exposes(last.args.obj, field.lookup_field)
     /\ Len(last.res.reversed) = 1) =>
        last.res.reversed[1][field.lookup_url_kwarg]
            = last.args.obj[field.lookup_field]

\* The bound object's instance has the lookup attribute with a None value.
InstanceIsNull(self, obj) ==
    /\ HasAttr(GetAttr(obj, "instance"), self.lookup_field)
    /\ obj["instance"][self.lookup_field] = None

\* C9 amended: the lookup value get_url hands to the resolver is, for a
\* PK-only placeholder, the lookup_field of the serializer root's instance;
\* otherwise the bound object's own lookup_field; otherwise that of the bound
\* object's instance.  A bound object that is no placeholder and exposes a
\* non-null lookup_field value contributes that value, unless its instance
\* holds a None lookup_field (then there is no URL).
C9_LookupPrecedence ==
    RouterGetUrlCalled =>
        LET obj == last.args.obj
            name == field.lookup_field
            rev == last.res.reversed
        IN  /\ Len(rev) = 1 =>
                    /\ DOMAIN rev[1] = {field.lookup_url_kwarg}
                    /\ rev[1][field.lookup_url_kwarg] =
                           IF IsPKOnlyObject(obj)
                           THEN GetAttr(last.args.root["instance"], name)
                           ELSE IF HasAttr(obj, name) THEN obj[name]
                           ELSE GetAttr(GetAttr(obj, "instance"), name)
            /\ (/\ ~IsPKOnlyObject(obj)
                /\ Exposes(obj, name)
                /\ ~InstanceIsNull(field, obj)) => Len(rev) = 1
            /\ (Exposes(obj, name) /\ InstanceIsNull(field, obj)) =>
                    (last.res.ret = None /\ rev = <<>>)

C9_Witness ==
    /\ RouterGetUrlCalled
    /\ IsPKOnlyObject(last.args.obj)
    /\ Exposes(last.args.obj, field.lookup_field)
    /\ Len(last.res.reversed) = 1
    /\ last.res.reversed[1][field.lookup_url_kwarg]
           # last.args.obj[field.lookup_field]

\* C10 as stated: whatever calls were made, the configuration is the one the
\* field was constructed with, and a queryset that differs from the constructed
\* one was unset at construction and was resolved by a get_queryset call of a
\* HyperlinkedRouterField.
C10_ConfigurationFixed ==
    /\ [field EXCEPT !.queryset = None] = [Constructed EXCEPT !.queryset = None]
    /\ field.queryset # Constructed.queryset =>
            /\ field.cls = "Router"
            /\ calls > 0
            /\ Constructed.queryset = None
            /\ field.queryset = RelatedHandle

====
